---- MODULE Spec2Model ----
(***************************************************************************)
(* A model of TextToSpeech.py: the retrying synthesis call                 *)
(* (tts_bytes_with_retry) and the parallel batch (generate_all_parallel)   *)
(* with its thread pool, its per-paragraph task and the collection of the  *)
(* futures into the two report lists.                                      *)
(*                                                                         *)
(* Durations are in tenths of a second (0.4 s is 4).  An exception is      *)
(* identified by what raised it: every raise creates a new object, so the  *)
(* error of the c-th synthesis call is <<"synth", c>> and the error of a   *)
(* failed write of i.mp3 is <<"io", i>>.                                   *)
(***************************************************************************)
EXTENDS Integers, Sequences, FiniteSets, TLC

\* Bounds of the model.
MaxParas == 2
MaxWorkers == 2
MaxRetries == 4
\* The longest batch whose termination is checked under fair scheduling.
MaxFairParas == 2
\* The longest batch checked for every retry configuration.
MaxCfgParas == 2

\* Mutant of TaskRetries: one retry fewer.
TaskRetriesLess == 3 - 1

\* The arguments task() passes to tts_bytes_with_retry.
TaskRetries == 3
TaskBaseDelay == 4

\* The values of rate_limit_delay explored (0.0 is main's setting).
RateDelays == {0, 1}
\* The values of base_delay explored when tts_bytes_with_retry is called alone.
BaseDelays == {1, 4}
\* The paragraph texts; gTTS's outcome does not depend on the model's text.
Texts == {"p"}
OutFolder == "out"

VARIABLES
    paragraphs,        \* argument: the list of paragraph strings
    max_workers,       \* argument: thread pool size
    rate_limit_delay,  \* argument: sleep before each task
    mpc,               \* position of the calling thread
    fatal,             \* the exception the call itself raised, or "none"
    next_idx,          \* the index the submission loop submits next
    queue,             \* the executor's work queue (FIFO of indices)
    jpc,               \* jpc[i]: position of task i
    retries,           \* retries[i]: argument of i's tts_bytes_with_retry call
    base_delay,        \* base_delay[i]: argument of the same call
    attempt,           \* attempt[i]: the loop variable of the retry loop
    last_err,          \* last_err[i]: the local last_err
    data,              \* data[i]: the bytes returned (the attempt that made them)
    result,            \* result[i]: the outcome stored in i's future
    calls,             \* calls[i]: synthesis calls made for i
    waits,             \* waits[i]: the backoff sleeps of i, in order
    idles,             \* idles[i]: rate-limit sleeps of i
    writes,            \* writes[i]: the outcomes of the writes of i.mp3, in order
    files,             \* files[i]: the state of i.mp3 in out_folder
    collected,         \* the futures as_completed has yielded, in order
    batch_cfg,         \* what the caller wants the batch's retries to be
    success_paths,     \* the list success_paths
    failures,          \* the list failures
    text,              \* the argument of split_into_paragraphs
    spc,               \* position of the split_into_paragraphs call
    split_result,      \* the list split_into_paragraphs returned
    fpc,               \* position of get_folder_and_confirm_overwrite
    num_files_expected, \* its argument
    folder_abs,        \* the folder it checked last
    conflicts,         \* the targets found in that folder when it was checked
    choice,            \* the last answer to the overwrite question, normalised
    fs,                \* fs[d]: the indices i whose i.mp3 exists in folder d
    apc,               \* position of main
    full_text          \* main's full_text

mainVars == <<paragraphs, max_workers, rate_limit_delay, batch_cfg, mpc, fatal,
              next_idx>>
poolVars == <<queue>>
retryVars == <<retries, base_delay, attempt, last_err, data, calls, waits>>
taskVars == <<jpc, result, idles, writes, files>>
reportVars == <<collected, success_paths, failures>>
splitVars == <<text, spc, split_result>>
folderVars == <<fpc, num_files_expected, folder_abs, conflicts, choice, fs>>
flowVars == <<apc, full_text>>
appVars == <<splitVars, folderVars, flowVars>>
vars == <<mainVars, poolVars, retryVars, taskVars, reportVars, appVars>>

Idx == 1..Len(paragraphs)
None == <<"none">>
Range(s) == {s[j] : j \in 1..Len(s)}

\* split_into_paragraphs is not called.
SplitOff ==
    /\ text = <<>>
    /\ spc = "off"
    /\ split_result = <<>>

\* get_folder_and_confirm_overwrite is not called.
FolderOff ==
    /\ fpc = "off"
    /\ num_files_expected = 0
    /\ folder_abs = None
    /\ conflicts = {}
    /\ choice = None
    /\ fs = <<>>

\* main is not running.
MainOff ==
    /\ apc = "off"
    /\ full_text = <<>>

\* Nothing of the application around the batch is running.
AppOff == SplitOff /\ FolderOff /\ MainOff

\* The defaults of retries and base_delay.
DefaultCfg == [max_attempts |-> 3, base_delay |-> 4]

----------------------------------------------------------------------------
\* Pure helpers.

RECURSIVE Pow2(_)
Pow2(n) == IF n <= 0 THEN 1 ELSE 2 * Pow2(n - 1)

\* f"{idx}": the decimal digits of a positive integer.
RECURSIVE Digits(_)
Digits(n) == IF n < 10 THEN <<n>> ELSE Append(Digits(n \div 10), n % 10)

\* int(s) of a digit string.
RECURSIVE ParseInt(_)
ParseInt(s) ==
    IF s = <<>> THEN 0 ELSE 10 * ParseInt(SubSeq(s, 1, Len(s) - 1)) + s[Len(s)]

\* os.path.join(out_folder, f"{idx}.mp3"), then os.path.abspath of it.
PathOf(idx) == [dir |-> OutFolder, stem |-> Digits(idx), ext |-> "mp3"]

\* int(os.path.splitext(os.path.basename(p))[0])
PathKey(p) == ParseInt(p.stem)

\* The key of failures.sort: the tuple (idx, e) itself.  Tuples compare by
\* their first component first, and the indices of a batch are all different,
\* so the exceptions are never compared.
FailKey(f) == f[1]

\* list.sort is stable: x goes after every element whose key is not greater.
InsertPath(s, x) ==
    LET c == Cardinality({j \in 1..Len(s) : PathKey(s[j]) <= PathKey(x)})
    IN  SubSeq(s, 1, c) \o <<x>> \o SubSeq(s, c + 1, Len(s))

\* Mutant of SortPaths: the list is returned in completion order.
KeepOrder(s) == s

RECURSIVE SortPaths(_)
SortPaths(s) ==
    IF s = <<>> THEN <<>>
    ELSE InsertPath(SortPaths(SubSeq(s, 1, Len(s) - 1)), s[Len(s)])

InsertFailure(s, x) ==
    LET c == Cardinality({j \in 1..Len(s) : FailKey(s[j]) <= FailKey(x)})
    IN  SubSeq(s, 1, c) \o <<x>> \o SubSeq(s, c + 1, Len(s))

RECURSIVE SortFailures(_)
SortFailures(s) ==
    IF s = <<>> THEN <<>>
    ELSE InsertFailure(SortFailures(SubSeq(s, 1, Len(s) - 1)), s[Len(s)])

\* Mutant of BackoffDelay: the exponent is off by one.
BackoffDoubled(base, a) == base * Pow2(a)

\* time.sleep(base_delay * (2 ** (attempt - 1)))
BackoffDelay(base, a) == base * Pow2(a - 1)

----------------------------------------------------------------------------
\* The state before generate_all_parallel runs, for every argument.
Init ==
    /\ paragraphs \in UNION {[1..n -> Texts] : n \in 0..MaxParas}
    /\ max_workers \in -1..MaxWorkers
    /\ rate_limit_delay \in RateDelays
    /\ batch_cfg = DefaultCfg
    /\ mpc = "call"
    /\ fatal = "none"
    /\ next_idx = 1
    /\ queue = <<>>
    /\ jpc = [i \in Idx |-> "new"]
    /\ retries = [i \in Idx |-> 0]
    /\ base_delay = [i \in Idx |-> 0]
    /\ attempt = [i \in Idx |-> 0]
    /\ last_err = [i \in Idx |-> None]
    /\ data = [i \in Idx |-> None]
    /\ result = [i \in Idx |-> None]
    /\ calls = [i \in Idx |-> 0]
    /\ waits = [i \in Idx |-> <<>>]
    /\ idles = [i \in Idx |-> 0]
    /\ writes = [i \in Idx |-> <<>>]
    /\ files \in [Idx -> {"absent", "old"}]
    /\ collected = <<>>
    /\ success_paths = <<>>
    /\ failures = <<>>
    /\ AppOff

----------------------------------------------------------------------------
\* generate_all_parallel, the calling thread.

\* Mutant of Call: the pool size is not checked.
CallNoCheck ==
    /\ mpc = "call"
    /\ mpc' = IF Len(paragraphs) = 0 THEN "collect" ELSE "submit"
    /\ fatal' = fatal
    /\ UNCHANGED <<paragraphs, max_workers, rate_limit_delay, batch_cfg, next_idx>>
    /\ UNCHANGED <<poolVars, retryVars, taskVars, reportVars>>
    /\ UNCHANGED appVars

\* os.makedirs (the folder exists or can be created: main has created it),
\* the two empty lists, and ThreadPoolExecutor(max_workers=max_workers),
\* which raises ValueError when max_workers <= 0.
Call ==
    /\ mpc = "call"
    /\ IF max_workers <= 0
       THEN /\ mpc' = "fatal"
            /\ fatal' = "ValueError"
       ELSE /\ mpc' = IF Len(paragraphs) = 0 THEN "collect" ELSE "submit"
            /\ fatal' = fatal
    /\ UNCHANGED <<paragraphs, max_workers, rate_limit_delay, batch_cfg, next_idx>>
    /\ UNCHANGED <<poolVars, retryVars, taskVars, reportVars>>
    /\ UNCHANGED appVars

\* executor.submit(task, idx, para) for the next idx of enumerate(paragraphs, 1).
Submit ==
    /\ mpc = "submit"
    /\ next_idx <= Len(paragraphs)
    /\ queue' = Append(queue, next_idx)
    /\ jpc' = [jpc EXCEPT ![next_idx] = "queued"]
    /\ next_idx' = next_idx + 1
    /\ mpc' = IF next_idx = Len(paragraphs) THEN "collect" ELSE "submit"
    /\ UNCHANGED <<paragraphs, max_workers, rate_limit_delay, batch_cfg, fatal>>
    /\ UNCHANGED <<retryVars, result, idles, writes, files, reportVars>>
    /\ UNCHANGED appVars

\* Mutant of Collect: the except clause drops the failure.
CollectLosesFailure(i) ==
    /\ mpc = "collect"
    /\ jpc[i] = "done"
    /\ i \notin Range(collected)
    /\ collected' = Append(collected, i)
    /\ success_paths' = IF result[i][1] = "ok"
                        THEN Append(success_paths, result[i][2])
                        ELSE success_paths
    /\ failures' = failures
    /\ UNCHANGED <<mainVars, poolVars, retryVars, taskVars>>
    /\ UNCHANGED appVars

\* Mutant of Collect: the failure is filed under its position in the list
\* instead of futures[fut].
CollectWrongIndex(i) ==
    /\ mpc = "collect"
    /\ jpc[i] = "done"
    /\ i \notin Range(collected)
    /\ collected' = Append(collected, i)
    /\ IF result[i][1] = "ok"
       THEN /\ success_paths' = Append(success_paths, result[i][2])
            /\ failures' = failures
       ELSE /\ failures' = Append(failures, <<Len(failures) + 1, result[i][2]>>)
            /\ success_paths' = success_paths
    /\ UNCHANGED <<mainVars, poolVars, retryVars, taskVars>>
    /\ UNCHANGED appVars

\* as_completed(futures) yields a finished future that it has not yielded yet;
\* fut.result() returns the path or raises the task's exception.
Collect(i) ==
    /\ mpc = "collect"
    /\ jpc[i] = "done"
    /\ i \notin Range(collected)
    /\ collected' = Append(collected, i)
    /\ IF result[i][1] = "ok"
       THEN /\ success_paths' = Append(success_paths, result[i][2])
            /\ failures' = failures
       ELSE /\ failures' = Append(failures, <<i, result[i][2]>>)
            /\ success_paths' = success_paths
    /\ UNCHANGED <<mainVars, poolVars, retryVars, taskVars>>
    /\ UNCHANGED appVars

\* Mutant of Return: the collecting loop is left at the first failure; the
\* with block still waits for the running tasks.
ReturnAtFirstFailure ==
    /\ mpc = "collect"
    /\ Range(collected) = Idx \/ failures /= <<>>
    /\ \A i \in Idx : jpc[i] = "done"
    /\ success_paths' = SortPaths(success_paths)
    /\ failures' = SortFailures(failures)
    /\ mpc' = "returned"
    /\ UNCHANGED <<paragraphs, max_workers, rate_limit_delay, batch_cfg, fatal,
                   next_idx>>
    /\ UNCHANGED <<poolVars, retryVars, taskVars, collected>>
    /\ UNCHANGED appVars

\* as_completed is exhausted, the with block shuts the executor down
\* (wait=True), both lists are sorted in place and returned.
Return ==
    /\ mpc = "collect"
    /\ Range(collected) = Idx
    /\ \A i \in Idx : jpc[i] = "done"
    /\ success_paths' = SortPaths(success_paths)
    /\ failures' = SortFailures(failures)
    /\ mpc' = "returned"
    /\ UNCHANGED <<paragraphs, max_workers, rate_limit_delay, batch_cfg, fatal,
                   next_idx>>
    /\ UNCHANGED <<poolVars, retryVars, taskVars, collected>>
    /\ UNCHANGED appVars

----------------------------------------------------------------------------
\* The thread pool and task(idx, text).

\* The tasks a worker thread is running.
Running == {i \in Idx : jpc[i] \notin {"new", "queued", "done"}}

\* Mutant of PoolHasFreeWorker: one thread per work item.
PoolUnbounded == TRUE

\* Mutant of PoolHasFreeWorker: the last worker thread is never used.
PoolOffByOne == Cardinality(Running) < max_workers - 1

\* ThreadPoolExecutor(max_workers): a queued work item is taken by a worker
\* thread, and there are never more than max_workers of them.
PoolHasFreeWorker == Cardinality(Running) < max_workers

\* Mutant of Start: the file is opened for writing before the synthesis.
StartOpensFile(i) ==
    /\ queue /= <<>>
    /\ i = Head(queue)
    /\ PoolHasFreeWorker
    /\ queue' = Tail(queue)
    /\ jpc' = [jpc EXCEPT ![i] = IF rate_limit_delay > 0 THEN "rate" ELSE "try"]
    /\ retries' = [retries EXCEPT ![i] = TaskRetries]
    /\ base_delay' = [base_delay EXCEPT ![i] = TaskBaseDelay]
    /\ attempt' = [attempt EXCEPT ![i] = 1]
    /\ files' = [files EXCEPT ![i] = "partial"]
    /\ UNCHANGED <<mainVars, last_err, data, calls, waits>>
    /\ UNCHANGED <<result, idles, writes, reportVars>>
    /\ UNCHANGED appVars

\* A worker takes the head of the work queue and enters task(): the optional
\* rate-limit sleep, or straight the call of tts_bytes_with_retry with
\* retries=3 and base_delay=0.4, whose loop starts at attempt 1.
Start(i) ==
    /\ queue /= <<>>
    /\ i = Head(queue)
    /\ PoolHasFreeWorker
    /\ queue' = Tail(queue)
    /\ jpc' = [jpc EXCEPT ![i] = IF rate_limit_delay > 0 THEN "rate" ELSE "try"]
    /\ retries' = [retries EXCEPT ![i] = TaskRetries]
    /\ base_delay' = [base_delay EXCEPT ![i] = TaskBaseDelay]
    /\ attempt' = [attempt EXCEPT ![i] = 1]
    /\ UNCHANGED <<mainVars, last_err, data, calls, waits>>
    /\ UNCHANGED <<result, idles, writes, files, reportVars>>
    /\ UNCHANGED appVars

\* time.sleep(rate_limit_delay) returns.
RateSleep(i) ==
    /\ jpc[i] = "rate"
    /\ idles' = [idles EXCEPT ![i] = @ + 1]
    /\ jpc' = [jpc EXCEPT ![i] = "try"]
    /\ UNCHANGED <<mainVars, poolVars, retryVars, result, writes, files, reportVars>>
    /\ UNCHANGED appVars

----------------------------------------------------------------------------
\* tts_bytes_with_retry(text, retries, base_delay).

\* The loop has another attempt to make.
LoopContinues(i) == attempt[i] <= retries[i]

\* for attempt in range(1, retries + 1): gTTS(text).write_to_fp(buf) is called.
SynthCall(i) ==
    /\ jpc[i] = "try"
    /\ LoopContinues(i)
    /\ calls' = [calls EXCEPT ![i] = @ + 1]
    /\ jpc' = [jpc EXCEPT ![i] = "synth"]
    /\ UNCHANGED <<mainVars, poolVars, retries, base_delay, attempt, last_err,
                   data, waits>>
    /\ UNCHANGED <<result, idles, writes, files, reportVars>>
    /\ UNCHANGED appVars

\* The call returns; return buf.read() leaves the loop at once.
SynthOk(i) ==
    /\ jpc[i] = "synth"
    /\ data' = [data EXCEPT ![i] = <<"bytes", attempt[i]>>]
    /\ jpc' = [jpc EXCEPT ![i] = "gotbytes"]
    /\ UNCHANGED <<mainVars, poolVars, retries, base_delay, attempt, last_err,
                   calls, waits>>
    /\ UNCHANGED <<result, idles, writes, files, reportVars>>
    /\ UNCHANGED appVars

\* Mutant of KeptError: only the first error is kept.
KeptFirstError(old, a) == IF old = None THEN <<"synth", a>> ELSE old

\* The error the except clause keeps when attempt a fails.
KeptError(old, a) == <<"synth", a>>

\* The call raises; except Exception as e: last_err = e, then the sleep starts.
SynthFail(i) ==
    /\ jpc[i] = "synth"
    /\ last_err' = [last_err EXCEPT ![i] = KeptError(@, attempt[i])]
    /\ jpc' = [jpc EXCEPT ![i] = "backoff"]
    /\ UNCHANGED <<mainVars, poolVars, retries, base_delay, attempt, data,
                   calls, waits>>
    /\ UNCHANGED <<result, idles, writes, files, reportVars>>
    /\ UNCHANGED appVars

\* Mutant of Backoff: the rate-limit sleep is taken again before a retry.
BackoffThenIdle(i) ==
    /\ jpc[i] = "backoff"
    /\ waits' = [waits EXCEPT ![i] = Append(@, BackoffDelay(base_delay[i], attempt[i]))]
    /\ attempt' = [attempt EXCEPT ![i] = @ + 1]
    /\ jpc' = [jpc EXCEPT ![i] = IF rate_limit_delay > 0 THEN "rate" ELSE "try"]
    /\ UNCHANGED <<mainVars, poolVars, retries, base_delay, last_err, data, calls>>
    /\ UNCHANGED <<result, idles, writes, files, reportVars>>
    /\ UNCHANGED appVars

\* time.sleep(base_delay * 2 ** (attempt - 1)) returns; the loop goes on to
\* the next value of attempt.
Backoff(i) ==
    /\ jpc[i] = "backoff"
    /\ waits' = [waits EXCEPT ![i] = Append(@, BackoffDelay(base_delay[i], attempt[i]))]
    /\ attempt' = [attempt EXCEPT ![i] = @ + 1]
    /\ jpc' = [jpc EXCEPT ![i] = "try"]
    /\ UNCHANGED <<mainVars, poolVars, retries, base_delay, last_err, data, calls>>
    /\ UNCHANGED <<result, idles, writes, files, reportVars>>
    /\ UNCHANGED appVars

\* What raise last_err raises: last_err, or TypeError when it is still None
\* (the loop body never ran).
Raised(e) == IF e = None THEN <<"TypeError">> ELSE e

\* The loop is exhausted: raise last_err.  The exception leaves task() too,
\* and the future stores it.
RaiseLast(i) ==
    /\ jpc[i] = "try"
    /\ ~LoopContinues(i)
    /\ result' = [result EXCEPT ![i] = <<"exc", Raised(last_err[i])>>]
    /\ jpc' = [jpc EXCEPT ![i] = "done"]
    /\ UNCHANGED <<mainVars, poolVars, retryVars, idles, writes, files, reportVars>>
    /\ UNCHANGED appVars

----------------------------------------------------------------------------
\* task(), after tts_bytes_with_retry returned the bytes.

\* open(path, "wb") and f.write(data) succeed; the task returns path.
WriteOk(i) ==
    /\ mpc /= "direct"
    /\ jpc[i] = "gotbytes"
    /\ writes' = [writes EXCEPT ![i] = Append(@, "written")]
    /\ files' = [files EXCEPT ![i] = "written"]
    /\ result' = [result EXCEPT ![i] = <<"ok", PathOf(i)>>]
    /\ jpc' = [jpc EXCEPT ![i] = "done"]
    /\ UNCHANGED <<mainVars, poolVars, retryVars, idles, reportVars>>
    /\ UNCHANGED appVars

\* Mutant of WriteFail: the error is swallowed and the path returned.
WriteFailSwallowed(i) ==
    /\ mpc /= "direct"
    /\ jpc[i] = "gotbytes"
    /\ writes' = [writes EXCEPT ![i] = Append(@, "failed")]
    /\ \E opened \in BOOLEAN :
           files' = [files EXCEPT ![i] = IF opened THEN "partial" ELSE @]
    /\ result' = [result EXCEPT ![i] = <<"ok", PathOf(i)>>]
    /\ jpc' = [jpc EXCEPT ![i] = "done"]
    /\ UNCHANGED <<mainVars, poolVars, retryVars, idles, reportVars>>
    /\ UNCHANGED appVars

\* open raises OSError and the file is as it was, or open has created or
\* truncated the file and f.write raises; the exception leaves task().
WriteFail(i) ==
    /\ mpc /= "direct"
    /\ jpc[i] = "gotbytes"
    /\ writes' = [writes EXCEPT ![i] = Append(@, "failed")]
    /\ \E opened \in BOOLEAN :
           files' = [files EXCEPT ![i] = IF opened THEN "partial" ELSE @]
    /\ result' = [result EXCEPT ![i] = <<"exc", <<"io", i>>>>]
    /\ jpc' = [jpc EXCEPT ![i] = "done"]
    /\ UNCHANGED <<mainVars, poolVars, retryVars, idles, reportVars>>
    /\ UNCHANGED appVars

----------------------------------------------------------------------------
Next ==
    \/ Call
    \/ Submit
    \/ Return
    \/ \E i \in Idx :
        \/ Collect(i)
        \/ Start(i)
        \/ RateSleep(i)
        \/ SynthCall(i)
        \/ SynthOk(i)
        \/ SynthFail(i)
        \/ Backoff(i)
        \/ RaiseLast(i)
        \/ WriteOk(i)
        \/ WriteFail(i)

Spec == Init /\ [][Next]_vars

\* The steps of the calling thread and of task i.
MainStep == Call \/ Submit \/ Return \/ \E i \in Idx : Collect(i)

JobStep(i) ==
    /\ i \in Idx
    /\ \/ Start(i)
       \/ RateSleep(i)
       \/ SynthCall(i)
       \/ SynthOk(i)
       \/ SynthFail(i)
       \/ Backoff(i)
       \/ RaiseLast(i)
       \/ WriteOk(i)
       \/ WriteFail(i)

\* The threads are scheduled fairly and every sleep, synthesis call and write
\* returns or raises: a thread that can take a step takes it.  No guard
\* reads the files, so the batch starts on a folder without targets.
InitFair ==
    /\ Init
    /\ Len(paragraphs) <= MaxFairParas
    /\ files = [i \in Idx |-> "absent"]

FairSpec ==
    /\ InitFair
    /\ [][Next]_vars
    /\ WF_vars(MainStep)
    /\ \A i \in 1..MaxFairParas : WF_vars(JobStep(i))

\* The batch for every retry configuration its caller may want.
\* generate_all_parallel has no parameter that takes it.
InitConfigured ==
    /\ paragraphs \in UNION {[1..n -> Texts] : n \in 1..MaxCfgParas}
    /\ max_workers \in 1..MaxWorkers
    /\ rate_limit_delay = 0
    /\ batch_cfg \in [max_attempts : 1..MaxRetries, base_delay : BaseDelays]
    /\ mpc = "call"
    /\ fatal = "none"
    /\ next_idx = 1
    /\ queue = <<>>
    /\ jpc = [i \in Idx |-> "new"]
    /\ retries = [i \in Idx |-> 0]
    /\ base_delay = [i \in Idx |-> 0]
    /\ attempt = [i \in Idx |-> 0]
    /\ last_err = [i \in Idx |-> None]
    /\ data = [i \in Idx |-> None]
    /\ result = [i \in Idx |-> None]
    /\ calls = [i \in Idx |-> 0]
    /\ waits = [i \in Idx |-> <<>>]
    /\ idles = [i \in Idx |-> 0]
    /\ writes = [i \in Idx |-> <<>>]
    /\ files = [i \in Idx |-> "absent"]
    /\ collected = <<>>
    /\ success_paths = <<>>
    /\ failures = <<>>
    /\ AppOff

SpecConfigured == InitConfigured /\ [][Next]_vars

\* tts_bytes_with_retry called on its own, for every retries and base_delay.
InitRetry ==
    /\ paragraphs = <<"p">>
    /\ max_workers = 1
    /\ rate_limit_delay = 0
    /\ batch_cfg = DefaultCfg
    /\ mpc = "direct"
    /\ fatal = "none"
    /\ next_idx = 1
    /\ queue = <<>>
    /\ jpc = [i \in Idx |-> "try"]
    /\ retries \in [Idx -> 0..MaxRetries]
    /\ base_delay \in [Idx -> BaseDelays]
    /\ attempt = [i \in Idx |-> 1]
    /\ last_err = [i \in Idx |-> None]
    /\ data = [i \in Idx |-> None]
    /\ result = [i \in Idx |-> None]
    /\ calls = [i \in Idx |-> 0]
    /\ waits = [i \in Idx |-> <<>>]
    /\ idles = [i \in Idx |-> 0]
    /\ writes = [i \in Idx |-> <<>>]
    /\ files = [i \in Idx |-> "absent"]
    /\ collected = <<>>
    /\ success_paths = <<>>
    /\ failures = <<>>
    /\ AppOff

\* The function returns the bytes to its caller.
ReturnBytes(i) ==
    /\ mpc = "direct"
    /\ jpc[i] = "gotbytes"
    /\ result' = [result EXCEPT ![i] = <<"ok", data[i]>>]
    /\ jpc' = [jpc EXCEPT ![i] = "done"]
    /\ UNCHANGED <<mainVars, poolVars, retryVars, idles, writes, files, reportVars>>
    /\ UNCHANGED appVars

NextRetry ==
    \E i \in Idx :
        \/ SynthCall(i)
        \/ SynthOk(i)
        \/ SynthFail(i)
        \/ Backoff(i)
        \/ RaiseLast(i)
        \/ ReturnBytes(i)

SpecRetry == InitRetry /\ [][NextRetry]_vars
----------------------------------------------------------------------------
\* Properties.

Returned == mpc = "returned"
TaskOk(i) == jpc[i] = "done" /\ result[i][1] = "ok"
TaskFailed(i) == jpc[i] = "done" /\ result[i][1] = "exc"
\* The retry loop of i was exhausted: the task raised a synthesis error.
Exhausted(i) == TaskFailed(i) /\ result[i][2][1] = "synth"
\* The write of i.mp3 was tried and failed.
WriteFailed(i) == "failed" \in Range(writes[i])

\* How often index i occurs in the two lists.
InSuccesses(i) == {j \in 1..Len(success_paths) : PathKey(success_paths[j]) = i}
InFailures(i) == {j \in 1..Len(failures) : failures[j][1] = i}

\* The elements of a set of integers, ascending.
RECURSIVE Ascending(_)
Ascending(S) ==
    IF S = {} THEN <<>>
    ELSE LET m == CHOOSE x \in S : \A y \in S : x <= y
         IN  <<m>> \o Ascending(S \ {m})

\* C1: the returned report holds every index 1..N exactly once across the
\* success list and the failure list: no index in both, none missing, none
\* twice, and the two lengths add up to N.
IndexCompleteness ==
    Returned =>
        /\ \A i \in Idx :
               Cardinality(InSuccesses(i)) + Cardinality(InFailures(i)) = 1
        /\ Len(success_paths) + Len(failures) = Len(paragraphs)

\* C1 witness: a returned report of two or more paragraphs with both lists
\* non-empty.
IndexCompletenessWitness ==
    /\ Returned
    /\ Len(paragraphs) >= 2
    /\ success_paths /= <<>>
    /\ failures /= <<>>

\* C2: whatever the completion order, the returned success list and failure
\* list are strictly ascending by index, and the report is the one the tasks'
\* outcomes determine: the ascending list of the paths of the tasks that
\* returned and the ascending list of (index, error) of those that raised.
OrderRestored ==
    Returned =>
        /\ \A j \in 1..(Len(success_paths) - 1) :
               PathKey(success_paths[j]) < PathKey(success_paths[j + 1])
        /\ \A j \in 1..(Len(failures) - 1) : failures[j][1] < failures[j + 1][1]
        /\ LET ok == Ascending({i \in Idx : TaskOk(i)})
               bad == Ascending({i \in Idx : TaskFailed(i)})
           IN  /\ success_paths = [j \in 1..Len(ok) |-> PathOf(ok[j])]
               /\ failures = [j \in 1..Len(bad) |-> <<bad[j], result[bad[j]][2]>>]

\* C2 witness: a returned report two of whose successes completed in
\* descending order of index.
OrderRestoredWitness ==
    /\ Returned
    /\ \E a, b \in 1..Len(collected) :
           /\ a < b
           /\ collected[a] > collected[b]
           /\ TaskOk(collected[a])
           /\ TaskOk(collected[b])

\* C3: with retries = k >= 1, tts_bytes_with_retry makes at most k synthesis
\* calls; when it returns, it returns the bytes of its last call, every call
\* before that one failed; when it raises, it has made exactly k calls and
\* raises the error of the k-th.
RetryContract ==
    \A i \in Idx :
        retries[i] >= 1 =>
            /\ calls[i] <= retries[i]
            /\ TaskOk(i) =>
                   /\ result[i][2] = <<"bytes", calls[i]>>
                   /\ Len(waits[i]) = calls[i] - 1
            /\ TaskFailed(i) =>
                   /\ calls[i] = retries[i]
                   /\ result[i][2] = <<"synth", retries[i]>>

\* C3 witness: a call with three or more attempts allowed has raised.
RetryContractWitness ==
    \E i \in Idx : retries[i] >= 3 /\ TaskFailed(i)

\* C4: when the last allowed attempt fails no backoff wait follows it: a
\* call that raised after k failed attempts has slept k - 1 times.
NoTrailingWait ==
    \A i \in Idx :
        (retries[i] >= 1 /\ Exhausted(i)) => Len(waits[i]) = retries[i] - 1

\* C5: at every instant the number of tasks inside a synthesis call is at
\* most max_workers (and none is when max_workers <= 0, where no pool exists).
BoundedInFlight ==
    Cardinality({i \in Idx : jpc[i] = "synth"})
        <= (IF max_workers > 0 THEN max_workers ELSE 0)

\* C5 witness: max_workers >= 1 synthesis calls in flight, the pool full,
\* while a work item waits in the queue.
BoundedInFlightWitness ==
    /\ max_workers >= 1
    /\ Cardinality({i \in Idx : jpc[i] = "synth"}) = max_workers
    /\ queue /= <<>>

\* C6: in the returned report every index whose own synthesis returned bytes
\* and whose own write succeeded is in the success list, and every task has
\* run, whatever the other tasks did.
Isolation ==
    Returned =>
        \A j \in Idx :
            /\ calls[j] >= 1
            /\ (data[j] /= None /\ writes[j] = <<"written">>) =>
                   PathOf(j) \in Range(success_paths)

\* C6 witness: task 1 failed for good and was collected first, and every
\* task behind it is in the success list.
IsolationWitness ==
    /\ Returned
    /\ Len(paragraphs) >= 2
    /\ Exhausted(1)
    /\ collected[1] = 1
    /\ \A j \in Idx \ {1} : PathOf(j) \in Range(success_paths)

\* C7: a batch of N >= 1 paragraphs with max_workers >= 1 eventually returns
\* with every task terminal; it returns only when all tasks are terminal; a
\* terminal task makes no further call or write.
AllJobsTerminate ==
    /\ (Len(paragraphs) >= 1 /\ max_workers >= 1)
           ~> (Returned /\ \A i \in Idx : jpc[i] = "done")
    /\ [](Returned => \A i \in Idx : jpc[i] = "done")
    /\ [][\A i \in Idx :
              jpc[i] = "done" =>
                  /\ jpc'[i] = "done"
                  /\ calls'[i] = calls[i]
                  /\ writes'[i] = writes[i]
                  /\ result'[i] = result[i]]_vars

\* C7 witness: a batch of two or more paragraphs has returned, with a
\* failed and a succeeded task.
AllJobsTerminateWitness ==
    /\ Returned
    /\ Len(paragraphs) >= 2
    /\ \E i, j \in Idx : TaskOk(i) /\ Exhausted(j)

\* C8 as stated: the tasks of a batch use the attempt limit and the backoff
\* base configured for the batch, so a paragraph that always fails gets
\* exactly max_attempts synthesis calls.
ConfiguredRetriesUsed ==
    \A i \in Idx :
        /\ jpc[i] \notin {"new", "queued"} =>
               /\ retries[i] = batch_cfg.max_attempts
               /\ base_delay[i] = batch_cfg.base_delay
        /\ Exhausted(i) => calls[i] = batch_cfg.max_attempts

\* C8 amended: whatever the caller wants configured, the tasks of a batch use
\* the attempt limit 3 and the backoff base 0.4, and a paragraph that always
\* fails gets exactly 3 synthesis calls.
FixedRetriesUsed ==
    \A i \in Idx :
        /\ jpc[i] \notin {"new", "queued"} =>
               /\ retries[i] = 3
               /\ base_delay[i] = 4
        /\ Exhausted(i) => calls[i] = 3 /\ waits[i][1] = 4

\* C8 witness: a batch wanted with another attempt limit than 3 has a task
\* that exhausted its attempts.
FixedRetriesUsedWitness ==
    /\ batch_cfg.max_attempts /= 3
    /\ batch_cfg.base_delay /= 4
    /\ \E i \in Idx : Exhausted(i)

\* C9 as stated: the call fails with a fatal error, and returns no report,
\* when max_workers <= 0 or when the paragraph sequence is empty.
InvalidConfigIsFatal ==
    (max_workers <= 0 \/ Len(paragraphs) = 0) =>
        /\ mpc \in {"call", "fatal"}
        /\ \A i \in Idx : jpc[i] = "new"

\* C9 amended: the call fails with a fatal error (ValueError) when
\* max_workers <= 0, and then no job is started; given an empty paragraph
\* sequence, max_workers >= 1 and an output folder that exists or can be
\* created, it does not fail: it starts no job and returns the empty report.
InvalidPoolSizeIsFatal ==
    /\ max_workers <= 0 =>
           /\ mpc \in {"call", "fatal"}
           /\ mpc = "fatal" => fatal = "ValueError"
           /\ \A i \in Idx : jpc[i] = "new"
           /\ queue = <<>>
    /\ max_workers >= 1 => mpc /= "fatal" /\ fatal = "none"
    /\ (max_workers >= 1 /\ Len(paragraphs) = 0) =>
           /\ mpc \in {"call", "collect", "returned"}
           /\ success_paths = <<>>
           /\ failures = <<>>

\* C9 witness: the call has failed on a non-empty paragraph sequence.
InvalidPoolSizeIsFatalWitness ==
    /\ mpc = "fatal"
    /\ Len(paragraphs) >= 1

\* C10: when the write of i.mp3 fails after a successful synthesis, the
\* write was tried once, no synthesis call follows the one that returned the
\* bytes, the task ends with the write error, the call does not fail, and
\* once collected index i is in the failure list with that error, exactly
\* once, and not in the success list.
WriteFailureNotRetried ==
    \A i \in Idx :
        WriteFailed(i) =>
            /\ writes[i] = <<"failed">>
            /\ data[i] = <<"bytes", calls[i]>>
            /\ TaskFailed(i)
            /\ result[i][2] = <<"io", i>>
            /\ mpc /= "fatal"
            /\ Returned => i \in Range(collected)
            /\ i \in Range(collected) =>
                   /\ \E j \in 1..Len(failures) : failures[j] = <<i, <<"io", i>>>>
                   /\ Cardinality(InFailures(i)) = 1
                   /\ InSuccesses(i) = {}

\* C10 witness: a report was returned in which an index failed on its write
\* after a synthesis that needed a retry, beside a success.
WriteFailureNotRetriedWitness ==
    /\ Returned
    /\ \E i, j \in Idx : WriteFailed(i) /\ calls[i] >= 2 /\ TaskOk(j)

\* The sum of a sequence of durations.
RECURSIVE SumOf(_)
SumOf(s) == IF s = <<>> THEN 0 ELSE s[1] + SumOf(Tail(s))

\* C11: the wait after the failure of attempt a < retries lasts
\* base_delay * 2^(a-1): base_delay after attempt 1, twice the previous wait
\* after each later one; two failures followed by a success have waited
\* 3 * base_delay in all; and every synthesis call after the first starts
\* when the wait of the failure before it is over.
BackoffSchedule ==
    \A i \in Idx :
        /\ \A a \in 1..Len(waits[i]) :
               a < retries[i] =>
                   /\ waits[i][a] = base_delay[i] * 2^(a - 1)
                   /\ a = 1 => waits[i][a] = base_delay[i]
                   /\ a > 1 => waits[i][a] = 2 * waits[i][a - 1]
        /\ (TaskOk(i) /\ calls[i] = 3) => SumOf(waits[i]) = 3 * base_delay[i]
        /\ jpc[i] = "synth" => Len(waits[i]) = calls[i] - 1
        /\ jpc[i] = "backoff" => Len(waits[i]) = calls[i] - 1

\* C11 witness: a call with base_delay 0.4 returned at its third attempt.
BackoffScheduleWitness ==
    \E i \in Idx :
        /\ TaskOk(i)
        /\ calls[i] = 3
        /\ base_delay[i] = 4
        /\ retries[i] > 3

\* C12 as stated: every failure entry of the report carries, besides the
\* index and the last error, the number of synthesis attempts made for that
\* index.
FailureCarriesAttempts ==
    Returned =>
        \A j \in 1..Len(failures) :
            /\ Len(failures[j]) = 3
            /\ failures[j][3] = calls[failures[j][1]]

\* C12 amended: every failure entry is the pair of the index and the error
\* that ended that index's task, without an attempt count; for a paragraph
\* whose synthesis always fails it is the error of the third attempt, the
\* last of the 3 made.
FailureCarriesIndexAndError ==
    \A j \in 1..Len(failures) :
        /\ Len(failures[j]) = 2
        /\ failures[j][1] \in Idx
        /\ TaskFailed(failures[j][1])
        /\ failures[j][2] = result[failures[j][1]][2]
        /\ Exhausted(failures[j][1]) =>
               /\ calls[failures[j][1]] = 3
               /\ failures[j][2] = <<"synth", 3>>

\* C12 witness: a returned report with the entry of an exhausted index
\* behind the entry of a failed write.
FailureCarriesIndexAndErrorWitness ==
    /\ Returned
    /\ Len(failures) >= 2
    /\ WriteFailed(failures[1][1])
    /\ Exhausted(failures[2][1])

\* C13: with rate_limit_delay > 0 every task idles exactly once, before its
\* first synthesis call, and not again before a retry; the idle is no part
\* of the backoff waits; with rate_limit_delay = 0 no task idles.
RateLimitOnce ==
    \A i \in Idx :
        /\ idles[i] <= 1
        /\ rate_limit_delay = 0 => idles[i] = 0 /\ jpc[i] /= "rate"
        /\ (rate_limit_delay > 0 /\ calls[i] >= 1) => idles[i] = 1
        /\ jpc[i] = "rate" => calls[i] = 0 /\ idles[i] = 0 /\ waits[i] = <<>>
        /\ \A a \in 1..Len(waits[i]) : waits[i][a] = 4 * 2^(a - 1)

\* C13 witness: with a rate limit set, a task has idled once and then
\* exhausted its attempts.
RateLimitOnceWitness ==
    /\ rate_limit_delay > 0
    /\ \E i \in Idx : Exhausted(i) /\ idles[i] = 1 /\ calls[i] = 3

\* i.mp3 is as it was before the batch: never created, truncated or written.
Untouched(i) == files[i] \in {"absent", "old"} /\ writes[i] = <<>>

\* C17: i.mp3 is opened for writing only after the synthesis of i returned
\* bytes: as long as task i holds no bytes (queued, idling, between its
\* attempts, or its attempts exhausted) the file is as it was before the
\* batch, and no write was attempted.
OpenOnlyAfterBytes ==
    \A i \in Idx :
        /\ data[i] = None => Untouched(i)
        /\ jpc[i] \in {"new", "queued", "rate", "try", "synth", "backoff"}
               => Untouched(i)
        /\ Exhausted(i) => Untouched(i)

\* C17 witness: the batch returned; one task exhausted its 3 attempts and
\* left the file that existed before as it was, another task wrote its file.
OpenOnlyAfterBytesWitness ==
    /\ Returned
    /\ \E i \in Idx : Exhausted(i) /\ calls[i] = 3 /\ files[i] = "old"
    /\ \E j \in Idx : files[j] = "written"

----------------------------------------------------------------------------
\* split_into_paragraphs(text).  A text is a sequence of characters.

\* The longest text split.
MaxTextLen == 5

\* The characters of the texts explored, and those str.strip() removes.
Chars == {"a", "b", " ", "\t", "\n", "\r"}
Whitespace == {" ", "\t", "\n", "\r"}
TextsUpTo(n) == UNION {[1..k -> Chars] : k \in 0..n}

\* str.strip(): the text without its leading and trailing whitespace.
RECURSIVE LStrip(_)
LStrip(s) ==
    IF s /= <<>> /\ s[1] \in Whitespace THEN LStrip(Tail(s)) ELSE s

RECURSIVE RStrip(_)
RStrip(s) ==
    IF s /= <<>> /\ s[Len(s)] \in Whitespace
    THEN RStrip(SubSeq(s, 1, Len(s) - 1))
    ELSE s

Strip(s) == RStrip(LStrip(s))

\* Mutant of MinNewlines: three line ends are needed.
MinNewlinesMore == 2 + 1

\* The {2,} of the pattern (?:\r?\n){2,}.
MinNewlines == 2

\* The length of what \r?\n matches at position p: 2, 1, or 0 for no match.
UnitLen(s, p) ==
    IF p + 1 <= Len(s) /\ s[p] = "\r" /\ s[p + 1] = "\n" THEN 2
    ELSE IF p <= Len(s) /\ s[p] = "\n" THEN 1
    ELSE 0

\* The greedy run of \r?\n from p: how many there are, and where it ends.
RECURSIVE RunCount(_, _)
RunCount(s, p) ==
    IF UnitLen(s, p) = 0 THEN 0 ELSE 1 + RunCount(s, p + UnitLen(s, p))

RECURSIVE RunEnd(_, _)
RunEnd(s, p) ==
    IF UnitLen(s, p) = 0 THEN p ELSE RunEnd(s, p + UnitLen(s, p))

\* re.split: the pieces of s between the leftmost matches of the pattern;
\* start is where the current piece begins, p the position tried.
RECURSIVE SplitFrom(_, _, _)
SplitFrom(s, start, p) ==
    IF p > Len(s) THEN <<SubSeq(s, start, Len(s))>>
    ELSE IF RunCount(s, p) >= MinNewlines
         THEN <<SubSeq(s, start, p - 1)>>
                  \o SplitFrom(s, RunEnd(s, p), RunEnd(s, p))
         ELSE SplitFrom(s, start, p + 1)

ReSplit(s) == SplitFrom(s, 1, 1)

\* Mutant of SplitIntoParagraphs: the pieces are kept as they are.
SplitKeepsPieces(t) ==
    SelectSeq(ReSplit(Strip(t)), LAMBDA x : Strip(x) /= <<>>)

\* parts = re.split(r'(?:\r?\n){2,}', text.strip());
\* [p.strip() for p in parts if p.strip()]
SplitIntoParagraphs(t) ==
    LET parts == ReSplit(Strip(t))
        stripped == [j \in 1..Len(parts) |-> Strip(parts[j])]
    IN  SelectSeq(stripped, LAMBDA x : x /= <<>>)

\* generate_all_parallel is not called.
BatchOff ==
    /\ paragraphs = <<>>
    /\ max_workers = 0
    /\ rate_limit_delay = 0
    /\ batch_cfg = DefaultCfg
    /\ mpc = "off"
    /\ fatal = "none"
    /\ next_idx = 1
    /\ queue = <<>>
    /\ jpc = <<>>
    /\ retries = <<>>
    /\ base_delay = <<>>
    /\ attempt = <<>>
    /\ last_err = <<>>
    /\ data = <<>>
    /\ result = <<>>
    /\ calls = <<>>
    /\ waits = <<>>
    /\ idles = <<>>
    /\ writes = <<>>
    /\ files = <<>>
    /\ collected = <<>>
    /\ success_paths = <<>>
    /\ failures = <<>>

\* The function is called on any text.
InitSplit ==
    /\ BatchOff
    /\ FolderOff
    /\ MainOff
    /\ text \in TextsUpTo(MaxTextLen)
    /\ spc = "called"
    /\ split_result = <<>>

\* The function returns its list.
SplitReturn ==
    /\ spc = "called"
    /\ split_result' = SplitIntoParagraphs(text)
    /\ spc' = "done"
    /\ UNCHANGED <<mainVars, poolVars, retryVars, taskVars, reportVars, text>>
    /\ UNCHANGED <<folderVars, flowVars>>

NextSplit == SplitReturn

SpecSplit == InitSplit /\ [][NextSplit]_vars

\* A line of p that holds only whitespace: two line ends with nothing but
\* blanks, tabs and carriage returns between them.
HasBlankLine(p) ==
    \E i, j \in 1..Len(p) :
        /\ i < j
        /\ p[i] = "\n"
        /\ p[j] = "\n"
        /\ \A k \in (i + 1)..(j - 1) : p[k] \in {" ", "\t", "\r"}

\* The characters of a text that are no whitespace, in order.
Visible(s) == SelectSeq(s, LAMBDA c : c \notin Whitespace)

\* The paragraphs one after the other.
RECURSIVE Concat(_)
Concat(ps) == IF ps = <<>> THEN <<>> ELSE ps[1] \o Concat(Tail(ps))

\* The paragraphs joined with one blank line between them.
RECURSIVE JoinBlank(_)
JoinBlank(ps) ==
    IF ps = <<>> THEN <<>>
    ELSE IF Len(ps) = 1 THEN ps[1]
    ELSE ps[1] \o <<"\n", "\n">> \o JoinBlank(Tail(ps))

\* C14: every line that holds only whitespace is a paragraph boundary: the
\* blocks of text before and after it are different paragraphs, so no
\* returned paragraph has such a line inside.
BlankLineIsBoundary ==
    spc = "done" => \A j \in 1..Len(split_result) : ~HasBlankLine(split_result[j])

\* C15: the paragraphs are in the order of the text, each non-empty and
\* without leading or trailing whitespace (runs of blank lines give no empty
\* paragraph), and empty or whitespace-only text gives the empty list.
SplitWellFormed ==
    spc = "done" =>
        /\ \A j \in 1..Len(split_result) :
               /\ split_result[j] /= <<>>
               /\ split_result[j][1] \notin Whitespace
               /\ split_result[j][Len(split_result[j])] \notin Whitespace
        /\ Visible(Concat(split_result)) = Visible(text)
        /\ Visible(text) = <<>> => split_result = <<>>

\* C15 witness: a text with blanks around its blocks and a run of three line
\* ends was split into two paragraphs.
SplitWellFormedWitness ==
    /\ spc = "done"
    /\ Len(split_result) = 2
    /\ \E p \in 1..Len(text) :
           /\ p + 2 <= Len(text)
           /\ \A k \in p..(p + 2) : text[k] \in {"\n", " "}
           /\ text[p] = " "

\* C16: joining the returned paragraphs with one blank line between them and
\* splitting again returns the same paragraphs.
SplitIdempotent ==
    spc = "done" => SplitIntoParagraphs(JoinBlank(split_result)) = split_result

\* C16 witness: two paragraphs whose rejoined text is not the text given.
SplitIdempotentWitness ==
    /\ spc = "done"
    /\ Len(split_result) >= 2
    /\ JoinBlank(split_result) /= text

----------------------------------------------------------------------------
\* get_folder_and_confirm_overwrite(num_files_expected).  Names and answers
\* are sequences of characters, as typed.

\* The folders there are, and what the user may type at the two prompts.
FolderNames == {<<"d">>, <<"e">>}
NameInputs == {<<>>, <<" ">>, <<"d">>, <<" ", "d">>, <<"e">>}
AnswerInputs == {<<"y">>, <<"Y">>, <<" ", "y">>, <<"n">>, <<"N", " ">>,
                 <<"y", "e", "s">>, <<"x">>, <<>>}

\* str.lower() on the letters typed.
LowerChar(c) == IF c = "Y" THEN "y" ELSE IF c = "N" THEN "n" ELSE c
Lower(s) == [j \in 1..Len(s) |-> LowerChar(s[j])]

\* The indices of the targets 1.mp3 .. N.mp3 that exist in folder d.
Existing(d, n) == fs[d] \cap (1..n)

\* The function is called with any count, on any content of the folders.
InitFolder ==
    /\ BatchOff
    /\ SplitOff
    /\ MainOff
    /\ fpc = "ask_name"
    /\ num_files_expected \in 0..MaxParas
    /\ folder_abs = None
    /\ conflicts = {}
    /\ choice = None
    /\ fs \in [FolderNames -> SUBSET (1..MaxParas)]

\* One round of the outer loop up to the overwrite question: the name is
\* read and stripped; an empty name, or a folder os.makedirs cannot make,
\* asks again; else the targets that exist are the conflicts, and without
\* conflicts the folder is returned.
EnterFolder ==
    /\ fpc = "ask_name"
    /\ \E raw \in NameInputs, made \in BOOLEAN :
           LET folder_name == Strip(raw)
           IN  IF folder_name = <<>> \/ ~made
               THEN UNCHANGED <<fpc, folder_abs, conflicts>>
               ELSE /\ folder_abs' = folder_name
                    /\ conflicts' = Existing(folder_name, num_files_expected)
                    /\ fpc' = IF conflicts' = {} THEN "returned"
                                                 ELSE "ask_overwrite"
    /\ UNCHANGED <<num_files_expected, choice, fs>>
    /\ UNCHANGED <<mainVars, poolVars, retryVars, taskVars, reportVars>>
    /\ UNCHANGED <<splitVars, flowVars>>

\* Mutant of AnswerOverwrite: every answer but 'n' counts as a yes.
AnswerDefaultsToYes ==
    /\ fpc = "ask_overwrite"
    /\ \E raw \in AnswerInputs :
           /\ choice' = Lower(Strip(raw))
           /\ IF choice' /= <<"n">>
              THEN /\ \E removed \in SUBSET conflicts :
                          fs' = [fs EXCEPT ![folder_abs] = @ \ removed]
                   /\ fpc' = "returned"
              ELSE /\ fpc' = "ask_name"
                   /\ fs' = fs
    /\ UNCHANGED <<num_files_expected, folder_abs, conflicts>>
    /\ UNCHANGED <<mainVars, poolVars, retryVars, taskVars, reportVars>>
    /\ UNCHANGED <<splitVars, flowVars>>

\* One round of the inner loop: the answer is read, stripped and lowered.
\* 'y': os.remove on every conflict, each of which may fail with a warning
\* only, and the folder is returned; 'n': back to the folder name; anything
\* else: the question again.
AnswerOverwrite ==
    /\ fpc = "ask_overwrite"
    /\ \E raw \in AnswerInputs :
           /\ choice' = Lower(Strip(raw))
           /\ IF choice' = <<"y">>
              THEN /\ \E removed \in SUBSET conflicts :
                          fs' = [fs EXCEPT ![folder_abs] = @ \ removed]
                   /\ fpc' = "returned"
              ELSE IF choice' = <<"n">>
              THEN /\ fpc' = "ask_name"
                   /\ fs' = fs
              ELSE /\ fpc' = "ask_overwrite"
                   /\ fs' = fs
    /\ UNCHANGED <<num_files_expected, folder_abs, conflicts>>
    /\ UNCHANGED <<mainVars, poolVars, retryVars, taskVars, reportVars>>
    /\ UNCHANGED <<splitVars, flowVars>>

NextFolder == EnterFolder \/ AnswerOverwrite

SpecFolder == InitFolder /\ [][NextFolder]_vars

\* A step at the overwrite question: after 'n' the folder name is asked,
\* after an answer other than 'y' and 'n' the question stays open.
AnswerRespected ==
    fpc = "ask_overwrite" =>
        /\ (choice' = <<"n">>) => (fpc' = "ask_name")
        /\ (choice' \notin {<<"y">>, <<"n">>}) =>
               (fpc' = "ask_overwrite" /\ folder_abs' = folder_abs)

\* A step that changes the folders' content: it answers 'y', and what
\* disappears is a conflict of the folder asked about.
RemovalNeedsYes ==
    fs' /= fs =>
        /\ fpc = "ask_overwrite"
        /\ choice' = <<"y">>
        /\ \A d \in FolderNames :
               /\ fs'[d] \subseteq fs[d]
               /\ (fs[d] \ fs'[d]) \subseteq
                      (IF d = folder_abs THEN conflicts ELSE {})

\* C19: the function returns a folder only if no target existed in it when
\* it was checked or the answer to the overwrite question for it was 'y';
\* at the question, 'n' leads to the folder-name prompt and any answer other
\* than 'y' and 'n' leaves the question open for the same folder; a file
\* disappears only by an answer 'y', and only a conflict of that folder.
OverwriteNeedsYes ==
    /\ [](fpc = "returned" => (conflicts = {} \/ choice = <<"y">>))
    /\ [][AnswerRespected /\ RemovalNeedsYes]_vars

\* C19 witness: the folder had targets when checked, the user answered 'y',
\* the folder is returned and none of its targets is left.
OverwriteNeedsYesWitness ==
    /\ fpc = "returned"
    /\ choice = <<"y">>
    /\ conflicts /= {}
    /\ Existing(folder_abs, num_files_expected) = {}

----------------------------------------------------------------------------
\* main(): the text, the split, the folder prompt, the batch.

\* The longest text typed or read, and the characters it is made of.
MaxMainLen == 4
MainChars == {"a", " ", "\n"}
MainInputs == UNION {[1..k -> MainChars] : k \in 0..MaxMainLen}

\* What os.cpu_count() may return; 0 stands for None.
CpuCounts == {0, 1, 16}

Min(a, b) == IF a <= b THEN a ELSE b
Max(a, b) == IF a >= b THEN a ELSE b

\* min(8, max(2, os.cpu_count() or 4))
DefaultWorkers(cpu) == Min(8, Max(2, IF cpu = 0 THEN 4 ELSE cpu))

\* What a folder may hold of the targets when main starts.
MainFolderContents == {{}, {1}}

\* main is started.
InitMain ==
    /\ BatchOff
    /\ SplitOff
    /\ fpc = "off"
    /\ num_files_expected = 0
    /\ folder_abs = None
    /\ conflicts = {}
    /\ choice = None
    /\ fs \in [FolderNames -> MainFolderContents]
    /\ apc = "get_text"
    /\ full_text = <<>>

\* get_text_via_choice(): typed text is returned stripped, whatever it is;
\* a file's text is returned stripped if it is not empty then, and else
\* another file is asked for.
GetText ==
    /\ apc = "get_text"
    /\ \E mode \in {"t", "f"}, raw \in MainInputs :
           IF mode = "f" /\ Strip(raw) = <<>>
           THEN UNCHANGED flowVars
           ELSE /\ full_text' = Strip(raw)
                /\ apc' = "check"
    /\ UNCHANGED <<mainVars, poolVars, retryVars, taskVars, reportVars>>
    /\ UNCHANGED <<splitVars, folderVars>>

\* Mutant of MainSplit: neither the text nor the paragraph count is checked.
MainSplitNoCheck ==
    /\ apc = "check"
    /\ text' = full_text
    /\ split_result' = SplitIntoParagraphs(full_text)
    /\ spc' = "done"
    /\ apc' = "folder"
    /\ fpc' = "ask_name"
    /\ num_files_expected' = Len(split_result')
    /\ UNCHANGED <<folder_abs, conflicts, choice, fs, full_text>>
    /\ UNCHANGED <<mainVars, poolVars, retryVars, taskVars, reportVars>>

\* main from the text to the folder prompt: it returns if the text is
\* empty; else it splits the text, returns if there is no paragraph, and
\* else calls get_folder_and_confirm_overwrite(num_paras).
MainSplit ==
    /\ apc = "check"
    /\ IF full_text = <<>>
       THEN /\ apc' = "exit"
            /\ UNCHANGED <<splitVars, folderVars>>
       ELSE /\ text' = full_text
            /\ split_result' = SplitIntoParagraphs(full_text)
            /\ spc' = "done"
            /\ IF Len(split_result') = 0
               THEN /\ apc' = "exit"
                    /\ UNCHANGED folderVars
               ELSE /\ apc' = "folder"
                    /\ fpc' = "ask_name"
                    /\ num_files_expected' = Len(split_result')
                    /\ UNCHANGED <<folder_abs, conflicts, choice, fs>>
    /\ UNCHANGED full_text
    /\ UNCHANGED <<mainVars, poolVars, retryVars, taskVars, reportVars>>

\* The folder prompt has returned: main sets max_workers and
\* rate_limit_delay = 0.0 and calls generate_all_parallel on the paragraphs
\* and the folder, whose targets are as the prompt left them.
MainDispatch ==
    /\ apc = "folder"
    /\ fpc = "returned"
    /\ apc' = "batch"
    /\ fpc' = "done"
    /\ conflicts' = {}
    /\ choice' = None
    /\ paragraphs' = split_result
    /\ \E cpu \in CpuCounts : max_workers' = DefaultWorkers(cpu)
    /\ rate_limit_delay' = 0
    /\ mpc' = "call"
    /\ queue' = <<>>
    /\ jpc' = [i \in 1..Len(split_result) |-> "new"]
    /\ retries' = [i \in 1..Len(split_result) |-> 0]
    /\ base_delay' = [i \in 1..Len(split_result) |-> 0]
    /\ attempt' = [i \in 1..Len(split_result) |-> 0]
    /\ last_err' = [i \in 1..Len(split_result) |-> None]
    /\ data' = [i \in 1..Len(split_result) |-> None]
    /\ result' = [i \in 1..Len(split_result) |-> None]
    /\ calls' = [i \in 1..Len(split_result) |-> 0]
    /\ waits' = [i \in 1..Len(split_result) |-> <<>>]
    /\ idles' = [i \in 1..Len(split_result) |-> 0]
    /\ writes' = [i \in 1..Len(split_result) |-> <<>>]
    /\ files' = [i \in 1..Len(split_result) |->
                    IF i \in fs[folder_abs] THEN "old" ELSE "absent"]
    /\ UNCHANGED <<batch_cfg, fatal, next_idx, reportVars>>
    /\ UNCHANGED <<splitVars, num_files_expected, folder_abs, fs, full_text>>

\* generate_all_parallel has returned: the report is spoken and printed and
\* the files are played if the user wants; main ends.
MainFinish ==
    /\ apc = "batch"
    /\ mpc = "returned"
    /\ apc' = "done"
    /\ UNCHANGED full_text
    /\ UNCHANGED <<mainVars, poolVars, retryVars, taskVars, reportVars>>
    /\ UNCHANGED <<splitVars, folderVars>>

\* main passes rate_limit_delay = 0.0, so no task sleeps before its call.
NextMain ==
    \/ GetText
    \/ MainSplit
    \/ EnterFolder
    \/ AnswerOverwrite
    \/ MainDispatch
    \/ MainFinish
    \/ Call
    \/ Submit
    \/ Return
    \/ \E i \in Idx :
        \/ Collect(i)
        \/ Start(i)
        \/ SynthCall(i)
        \/ SynthOk(i)
        \/ SynthFail(i)
        \/ Backoff(i)
        \/ RaiseLast(i)
        \/ WriteOk(i)
        \/ WriteFail(i)

SpecMain == InitMain /\ [][NextMain]_vars

\* main has gone past its two checks.
PastChecks == apc \in {"folder", "batch", "done"}

\* C18: main asks for a folder and calls generate_all_parallel only with a
\* non-empty text that split into one paragraph or more, and the batch gets
\* exactly these paragraphs; with an empty text, or with no paragraph, main
\* has exited with the folder prompt never started, the batch never called,
\* no task and no synthesis call made.
DispatchNeedsParagraph ==
    /\ (fpc /= "off" \/ mpc /= "off") =>
           /\ PastChecks
           /\ full_text /= <<>>
           /\ Len(split_result) >= 1
    /\ mpc /= "off" => paragraphs = split_result
    /\ (apc \notin {"get_text", "check"}
            /\ (full_text = <<>> \/ split_result = <<>>)) => apc = "exit"
    /\ apc = "exit" =>
           /\ fpc = "off"
           /\ mpc = "off"
           /\ paragraphs = <<>>
           /\ jpc = <<>>
           /\ calls = <<>>

\* C18 witness: nothing but blanks and line ends was typed, if anything, and
\* main has exited without splitting.
DispatchNeedsParagraphWitness ==
    /\ apc = "exit"
    /\ full_text = <<>>
    /\ spc = "off"
====
